---- MODULE Spec2Model ----
(***************************************************************************)
(* Model of the HiFi-GAN audio preprocessing pipeline                      *)
(* (preprocess_audio.py: AudioPreprocessor, main) and of the near-duplicate*)
(* file-name cleaner (src/scrapping/cleaner.py).                           *)
(*                                                                         *)
(* File names are sequences of one-character strings, so that formatting   *)
(* (f"{idx:04d}.wav"), extension matching (glob '*.mp3', endswith) and the *)
(* regular-expression substitution of the cleaner are computed.            *)
(* An optional value (Python None or a value) is a set with at most one    *)
(* element; a file that may be absent is modelled the same way.            *)
(***************************************************************************)
EXTENDS Integers, Sequences, FiniteSets, TLC

VARIABLES
    jamendo_tracks,   \* names of the files in the input directory
    input_exists,     \* whether the input directory exists
    dirs_made,        \* output_dir/audio and output_dir/mels were created
    audio_out,        \* names of the files in output_dir/audio
    mel_out,          \* names of the files in output_dir/mels
    metadata_json,    \* output_dir/metadata.json: {} or {its content}
    config_json,      \* output_dir/config.json: {} or {its content}
    pc,               \* position of the running program
    entry,            \* "main" or "direct" (process_directory called directly)
    config,           \* the config dict handed to AudioPreprocessor
    self,             \* the AudioPreprocessor's attributes
    max_files,        \* process_directory's max_files: {} (None) or {n}
    audio_files,      \* the (optionally truncated) discovery list
    idx,              \* loop index of enumerate(audio_files)
    audio,            \* {} or {length of the waveform of the current file}
    mel,              \* {} or {shape of the spectrogram of the current file}
    metadata,         \* the in-memory list of records
    errors,           \* file names printed by the except branch, in order
    attempted,        \* file names handed to load_audio, in order
    summary,          \* {} or {what main's summary printed}
    runs,             \* number of runs started
    runlog,           \* per run: its config, cap, listing and discovery list
    listado,          \* cleaner: the os.listdir snapshot
    pos,              \* cleaner: number of listing entries handled
    archivos_vistos   \* cleaner: normalized name -> first path seen

vars == <<jamendo_tracks, input_exists, dirs_made, audio_out, mel_out,
          metadata_json, config_json, pc, entry, config, self, max_files,
          audio_files, idx, audio, mel, metadata, errors, attempted, summary,
          runs, runlog, listado, pos, archivos_vistos>>

pipeVars == <<input_exists, dirs_made, audio_out, mel_out, metadata_json,
              config_json, entry, config, self, max_files, audio_files, idx,
              audio, mel, metadata, errors, attempted, summary, runs, runlog>>

cleanerVars == <<listado, pos, archivos_vistos>>

----------------------------------------------------------------------------
(* Bounds of the model *)

\* largest number of .mp3 files in the input directory of the pipeline
MaxFiles == 2
\* number of runs over the same output root
MaxRuns == 2
\* cleaner: largest number of files in the folder
MaxDir == 3

----------------------------------------------------------------------------
(* Text *)

MP3 == <<".", "m", "p", "3">>
TXT == <<".", "t", "x", "t">>
WAV == <<".", "w", "a", "v">>
NPY == <<".", "n", "p", "y">>

\* str.endswith
EndsWith(s, suffix) ==
    /\ Len(s) >= Len(suffix)
    /\ SubSeq(s, Len(s) - Len(suffix) + 1, Len(s)) = suffix

DigitChar(d) == <<"0", "1", "2", "3", "4", "5", "6", "7", "8", "9">>[d + 1]

RECURSIVE Decimal(_)
Decimal(n) ==
    IF n < 10 THEN <<DigitChar(n)>>
    ELSE Decimal(n \div 10) \o <<DigitChar(n % 10)>>

\* width of the zero padding in f"{idx:04d}"
PadWidth == 4

\* f"{n:04d}": decimal digits, zero-padded on the left to PadWidth
Fmt04d(n) ==
    LET d == Decimal(n)
    IN  IF Len(d) >= PadWidth THEN d
        ELSE [i \in 1..(PadWidth - Len(d)) |-> "0"] \o d

\* f"{idx:04d}.wav"
AudioFilename(i) == Fmt04d(i) \o WAV

\* f"{idx:04d}.npy"
MelFilename(i) == Fmt04d(i) \o NPY

\* all orders in which the elements of a finite set can be listed
Listings(S) ==
    {s \in [1..Cardinality(S) -> S] : \A i, j \in DOMAIN s : i # j => s[i] # s[j]}

Range(s) == {s[i] : i \in DOMAIN s}

Min(a, b) == IF a < b THEN a ELSE b
Max(a, b) == IF a > b THEN a ELSE b

----------------------------------------------------------------------------
(* The input directory of the pipeline *)

\* the name "a...a.mp3" with k letters
TrackName(k) == [i \in 1..k |-> "a"] \o MP3

\* names a file of the input directory can have: .mp3 tracks and one other file
TrackPool == {TrackName(k) : k \in 1..MaxFiles} \cup {<<"a">> \o TXT}

\* number of samples load_audio returns for a file (a property of the file)
SamplesOf(name) == 256 * Len(name)

----------------------------------------------------------------------------
(* Configuration *)

\* the config dict literal of main
MainConfig ==
    [sample_rate |-> 22050, n_fft |-> 1024, hop_length |-> 256,
     win_length |-> 1024, n_mels |-> 80, fmin |-> 0, fmax |-> 8000,
     segment_size |-> 8192]

\* configs a direct caller of AudioPreprocessor passes: main's, and one for
\* each violation of the configuration invariant
Configs ==
    {MainConfig,
     [MainConfig EXCEPT !.hop_length = 0],
     [MainConfig EXCEPT !.win_length = 2048],
     [MainConfig EXCEPT !.fmax = 12000]}

\* AudioPreprocessor.__init__: copies the eight entries, validates nothing
Construct(c) ==
    [sample_rate |-> c.sample_rate, n_fft |-> c.n_fft,
     hop_length |-> c.hop_length, win_length |-> c.win_length,
     n_mels |-> c.n_mels, fmin |-> c.fmin, fmax |-> c.fmax,
     segment_size |-> c.segment_size]

\* the attributes of an AudioPreprocessor before construction
NoSelf == Construct([sample_rate |-> 0, n_fft |-> 0, hop_length |-> 0,
                     win_length |-> 0, n_mels |-> 0, fmin |-> 0, fmax |-> 0,
                     segment_size |-> 0])

\* librosa.feature.melspectrogram raises for a hop length that is not
\* positive and for a window longer than the FFT size
ExtractAccepts(p) == p.hop_length > 0 /\ p.win_length <= p.n_fft

\* mel.shape: (n_mels, 1 + len(audio) // hop_length), frames centred
MelShape(p, len) ==
    <<p.n_mels, 1 + (IF p.hop_length > 0 THEN len \div p.hop_length ELSE 0)>>

----------------------------------------------------------------------------
(* Discovery *)

\* input_dir.glob('*.mp3'): the names ending in .mp3 (none when the
\* directory does not exist)
Glob(exists, files) ==
    IF exists THEN {f \in files : EndsWith(f, MP3)} ELSE {}

\* Python truthiness of max_files: None and 0 are false
Truthy(mf) == mf # {} /\ mf # {0}

\* s[:n] of a Python list
SliceTo(s, n) ==
    IF n >= 0 THEN SubSeq(s, 1, Min(n, Len(s)))
    ELSE SubSeq(s, 1, Max(Len(s) + n, 0))

\* if max_files: audio_files = audio_files[:max_files]
Truncate(s, mf) ==
    IF Truthy(mf) THEN SliceTo(s, CHOOSE n \in mf : TRUE) ELSE s

\* values of max_files a caller passes: None, a count, or a negative number
Caps == {{}} \cup {{n} : n \in (-1)..MaxFiles}

----------------------------------------------------------------------------
(* Records *)

\* a record numbered by the count of records appended so far
MakeRecordCompact(i, name, len, shape, p) ==
    [id |-> Len(metadata), original_file |-> name,
     audio_file |-> AudioFilename(Len(metadata)),
     mel_file |-> MelFilename(Len(metadata)), audio_length |-> len,
     duration |-> [num |-> len, den |-> p.sample_rate], mel_shape |-> shape]

\* the dict appended to metadata
MakeRecord(i, name, len, shape, p) ==
    [id |-> i, original_file |-> name, audio_file |-> AudioFilename(i),
     mel_file |-> MelFilename(i), audio_length |-> len,
     duration |-> [num |-> len, den |-> p.sample_rate], mel_shape |-> shape]

RECURSIVE SumLengths(_)
SumLengths(md) ==
    IF md = <<>> THEN 0 ELSE md[1].audio_length + SumLengths(Tail(md))

\* `if metadata:` in main
SummaryGuard(md) == md # <<>>

----------------------------------------------------------------------------
(* The pipeline: main and AudioPreprocessor.process_directory *)

InitOutput ==
    /\ dirs_made = FALSE
    /\ audio_out = {}
    /\ mel_out = {}
    /\ metadata_json = {}
    /\ config_json = {}

InitRun ==
    /\ pc = "idle"
    /\ entry = "none"
    /\ config = MainConfig
    /\ self = NoSelf
    /\ max_files = {}
    /\ audio_files = <<>>
    /\ idx = 0
    /\ audio = {}
    /\ mel = {}
    /\ metadata = <<>>
    /\ errors = <<>>
    /\ attempted = <<>>
    /\ summary = {}
    /\ runs = 0
    /\ runlog = <<>>

InitCleanerIdle ==
    /\ listado = <<>>
    /\ pos = 0
    /\ archivos_vistos = {}

Init ==
    /\ input_exists \in BOOLEAN
    /\ jamendo_tracks \in (IF input_exists THEN SUBSET TrackPool ELSE {{}})
    /\ InitOutput
    /\ InitRun
    /\ InitCleanerIdle

\* a run starts when the program is invoked
CanStart == pc = "idle"

\* the per-run state at the start of a run
ResetRun ==
    /\ audio_files' = <<>>
    /\ idx' = 0
    /\ audio' = {}
    /\ mel' = {}
    /\ metadata' = <<>>
    /\ errors' = <<>>
    /\ attempted' = <<>>
    /\ summary' = {}
    /\ runs' = runs + 1

\* main, input directory missing: prints the error and returns
MainMissing ==
    /\ CanStart
    /\ ~input_exists
    /\ entry' = "main"
    /\ config' = MainConfig
    /\ self' = NoSelf
    /\ max_files' = {}
    /\ ResetRun
    /\ pc' = "done"
    /\ UNCHANGED <<jamendo_tracks, input_exists, dirs_made, audio_out,
                   mel_out, metadata_json, config_json, runlog>>
    /\ UNCHANGED cleanerVars

\* main, input directory present: builds the preprocessor from the literal
\* config and calls process_directory without max_files
MainStart ==
    /\ CanStart
    /\ input_exists
    /\ entry' = "main"
    /\ config' = MainConfig
    /\ self' = Construct(MainConfig)
    /\ max_files' = {}
    /\ ResetRun
    /\ pc' = "begin"
    /\ UNCHANGED <<jamendo_tracks, input_exists, dirs_made, audio_out,
                   mel_out, metadata_json, config_json, runlog>>
    /\ UNCHANGED cleanerVars

\* a caller builds AudioPreprocessor(c) and calls process_directory itself
DirectStart ==
    /\ CanStart
    /\ \E c \in Configs, mf \in Caps :
         /\ config' = c
         /\ self' = Construct(c)
         /\ max_files' = mf
    /\ entry' = "direct"
    /\ ResetRun
    /\ pc' = "begin"
    /\ UNCHANGED <<jamendo_tracks, input_exists, dirs_made, audio_out,
                   mel_out, metadata_json, config_json, runlog>>
    /\ UNCHANGED cleanerVars

\* where the loop goes after the file at index i
AfterFile(i) == IF i + 1 < Len(audio_files) THEN "load" ELSE "save_meta"

\* process_directory up to the loop: mkdir, glob (in an order the file
\* system chooses), truncation, metadata = []
Discover ==
    /\ pc = "begin"
    /\ dirs_made' = TRUE
    /\ \E listing \in Listings(Glob(input_exists, jamendo_tracks)) :
         /\ audio_files' = Truncate(listing, max_files)
         /\ runlog' = Append(runlog,
                             [config |-> config, cap |-> max_files,
                              listing |-> listing,
                              audio_files |-> audio_files'])
    /\ metadata' = <<>>
    /\ idx' = 0
    /\ pc' = IF Len(audio_files') > 0 THEN "load" ELSE "save_meta"
    /\ UNCHANGED <<jamendo_tracks, input_exists, audio_out, mel_out,
                   metadata_json, config_json, entry, config, self, max_files,
                   audio, mel, errors, attempted, summary, runs>>
    /\ UNCHANGED cleanerVars

\* an except branch that leaves the loop
ExceptBreak ==
    /\ errors' = Append(errors, audio_files[idx + 1])
    /\ pc' = "save_meta"
    /\ idx' = idx
    /\ audio' = {}
    /\ mel' = {}

\* except Exception: print the file name, continue with the next file
Except ==
    /\ errors' = Append(errors, audio_files[idx + 1])
    /\ pc' = AfterFile(idx)
    /\ idx' = IF idx + 1 < Len(audio_files) THEN idx + 1 ELSE idx
    /\ audio' = {}
    /\ mel' = {}

\* the file at idx is handed to load_audio
Attempt == attempted' = Append(attempted, audio_files[idx + 1])

LoadOk ==
    /\ pc = "load"
    /\ Attempt
    /\ audio' = {SamplesOf(audio_files[idx + 1])}
    /\ mel' = {}
    /\ pc' = "write_wav"
    /\ UNCHANGED <<jamendo_tracks, input_exists, dirs_made, audio_out,
                   mel_out, metadata_json, config_json, entry, config, self,
                   max_files, audio_files, idx, metadata, errors, summary,
                   runs, runlog>>
    /\ UNCHANGED cleanerVars

LoadFail ==
    /\ pc = "load"
    /\ Attempt
    /\ Except
    /\ UNCHANGED <<jamendo_tracks, input_exists, dirs_made, audio_out,
                   mel_out, metadata_json, config_json, entry, config, self,
                   max_files, audio_files, metadata, summary, runs, runlog>>
    /\ UNCHANGED cleanerVars

\* sf.write(audio_dir / f"{idx:04d}.wav", audio, sample_rate)
WriteWavOk ==
    /\ pc = "write_wav"
    /\ audio_out' = audio_out \cup {AudioFilename(idx)}
    /\ pc' = "extract"
    /\ UNCHANGED <<jamendo_tracks, input_exists, dirs_made, mel_out,
                   metadata_json, config_json, entry, config, self, max_files,
                   audio_files, idx, audio, mel, metadata, errors, attempted,
                   summary, runs, runlog>>
    /\ UNCHANGED cleanerVars

\* sf.write raises; the file it opened may be left behind
WriteWavFail ==
    /\ pc = "write_wav"
    /\ \E left \in BOOLEAN :
         audio_out' = IF left THEN audio_out \cup {AudioFilename(idx)}
                      ELSE audio_out
    /\ Except
    /\ UNCHANGED <<jamendo_tracks, input_exists, dirs_made, mel_out,
                   metadata_json, config_json, entry, config, self, max_files,
                   audio_files, metadata, attempted, summary, runs, runlog>>
    /\ UNCHANGED cleanerVars

ExtractOk ==
    /\ pc = "extract"
    /\ ExtractAccepts(self)
    /\ mel' = {MelShape(self, CHOOSE n \in audio : TRUE)}
    /\ pc' = "save_mel"
    /\ UNCHANGED <<jamendo_tracks, input_exists, dirs_made, audio_out,
                   mel_out, metadata_json, config_json, entry, config, self,
                   max_files, audio_files, idx, audio, metadata, errors,
                   attempted, summary, runs, runlog>>
    /\ UNCHANGED cleanerVars

\* extract_mel_spectrogram raises; the waveform file stays where it is
ExtractFail ==
    /\ pc = "extract"
    /\ Except
    /\ UNCHANGED <<jamendo_tracks, input_exists, dirs_made, audio_out,
                   mel_out, metadata_json, config_json, entry, config, self,
                   max_files, audio_files, metadata, attempted, summary, runs,
                   runlog>>
    /\ UNCHANGED cleanerVars

\* the spectrogram saved under audio_dir
SaveMelIntoAudioDir ==
    /\ pc = "save_mel"
    /\ audio_out' = audio_out \cup {MelFilename(idx)}
    /\ pc' = "append"
    /\ UNCHANGED <<jamendo_tracks, input_exists, dirs_made, mel_out,
                   metadata_json, config_json, entry, config, self, max_files,
                   audio_files, idx, audio, mel, metadata, errors, attempted,
                   summary, runs, runlog>>
    /\ UNCHANGED cleanerVars

\* np.save(mel_dir / f"{idx:04d}.npy", mel)
SaveMelOk ==
    /\ pc = "save_mel"
    /\ mel_out' = mel_out \cup {MelFilename(idx)}
    /\ pc' = "append"
    /\ UNCHANGED <<jamendo_tracks, input_exists, dirs_made, audio_out,
                   metadata_json, config_json, entry, config, self, max_files,
                   audio_files, idx, audio, mel, metadata, errors, attempted,
                   summary, runs, runlog>>
    /\ UNCHANGED cleanerVars

\* np.save raises; the file it opened may be left behind
SaveMelFail ==
    /\ pc = "save_mel"
    /\ \E left \in BOOLEAN :
         mel_out' = IF left THEN mel_out \cup {MelFilename(idx)} ELSE mel_out
    /\ Except
    /\ UNCHANGED <<jamendo_tracks, input_exists, dirs_made, audio_out,
                   metadata_json, config_json, entry, config, self, max_files,
                   audio_files, metadata, attempted, summary, runs, runlog>>
    /\ UNCHANGED cleanerVars

\* metadata.append({...}); the loop goes on
AppendRecord ==
    /\ pc = "append"
    /\ metadata' = Append(metadata,
                          MakeRecord(idx, audio_files[idx + 1],
                                     CHOOSE n \in audio : TRUE,
                                     CHOOSE sh \in mel : TRUE, self))
    /\ pc' = AfterFile(idx)
    /\ idx' = IF idx + 1 < Len(audio_files) THEN idx + 1 ELSE idx
    /\ audio' = {}
    /\ mel' = {}
    /\ UNCHANGED <<jamendo_tracks, input_exists, dirs_made, audio_out,
                   mel_out, metadata_json, config_json, entry, config, self,
                   max_files, audio_files, errors, attempted, summary, runs,
                   runlog>>
    /\ UNCHANGED cleanerVars

\* json.dump(metadata, metadata.json); process_directory returns
SaveMetadata ==
    /\ pc = "save_meta"
    /\ metadata_json' = {metadata}
    /\ pc' = IF entry = "main" THEN "summary" ELSE "done"
    /\ UNCHANGED <<jamendo_tracks, input_exists, dirs_made, audio_out,
                   mel_out, config_json, entry, config, self, max_files,
                   audio_files, idx, audio, mel, metadata, errors, attempted,
                   summary, runs, runlog>>
    /\ UNCHANGED cleanerVars

\* main's summary: the count, and under `if metadata:` the total and the
\* average duration; dividing by a count of 0 raises ZeroDivisionError
Summary ==
    /\ pc = "summary"
    /\ IF SummaryGuard(metadata) /\ Len(metadata) = 0
       THEN /\ pc' = "crashed"
            /\ summary' = {}
       ELSE /\ pc' = "save_config"
            /\ summary' =
                 {[total_files |-> Len(metadata),
                   stats |->
                     IF SummaryGuard(metadata)
                     THEN {[total |-> [num |-> SumLengths(metadata),
                                       den |-> metadata[1].duration.den],
                            average |-> [num |-> SumLengths(metadata),
                                         den |-> metadata[1].duration.den
                                                   * Len(metadata)]]}
                     ELSE {}]}
    /\ UNCHANGED <<jamendo_tracks, input_exists, dirs_made, audio_out,
                   mel_out, metadata_json, config_json, entry, config, self,
                   max_files, audio_files, idx, audio, mel, metadata, errors,
                   attempted, runs, runlog>>
    /\ UNCHANGED cleanerVars

\* a snapshot that leaves out segment_size
SaveConfigSpectralOnly ==
    /\ pc = "save_config"
    /\ config_json' = {[k \in DOMAIN config \ {"segment_size"} |-> config[k]]}
    /\ pc' = "done"
    /\ UNCHANGED <<jamendo_tracks, input_exists, dirs_made, audio_out,
                   mel_out, metadata_json, entry, config, self, max_files,
                   audio_files, idx, audio, mel, metadata, errors, attempted,
                   summary, runs, runlog>>
    /\ UNCHANGED cleanerVars

\* json.dump(config, config.json)
SaveConfig ==
    /\ pc = "save_config"
    /\ config_json' = {config}
    /\ pc' = "done"
    /\ UNCHANGED <<jamendo_tracks, input_exists, dirs_made, audio_out,
                   mel_out, metadata_json, entry, config, self, max_files,
                   audio_files, idx, audio, mel, metadata, errors, attempted,
                   summary, runs, runlog>>
    /\ UNCHANGED cleanerVars

Next ==
    \/ MainMissing
    \/ MainStart
    \/ DirectStart
    \/ Discover
    \/ LoadOk
    \/ LoadFail
    \/ WriteWavOk
    \/ WriteWavFail
    \/ ExtractOk
    \/ ExtractFail
    \/ SaveMelOk
    \/ SaveMelFail
    \/ AppendRecord
    \/ SaveMetadata
    \/ Summary
    \/ SaveConfig

Spec == Init /\ [][Next]_vars

\* the program is invoked again over the same input directory and output
\* root, which keeps the files the earlier runs left
Rerun ==
    /\ pc = "done"
    /\ runs < MaxRuns
    /\ pc' = "idle"
    /\ UNCHANGED <<jamendo_tracks, input_exists, dirs_made, audio_out,
                   mel_out, metadata_json, config_json, entry, config, self,
                   max_files, audio_files, idx, audio, mel, metadata, errors,
                   attempted, summary, runs, runlog>>
    /\ UNCHANGED cleanerVars

NextRerun ==
    \/ Next
    \/ Rerun

RerunSpec == Init /\ [][NextRerun]_vars

\* the steps of a started run; a single-threaded program keeps executing
Step ==
    \/ Discover
    \/ LoadOk
    \/ LoadFail
    \/ WriteWavOk
    \/ WriteWavFail
    \/ ExtractOk
    \/ ExtractFail
    \/ SaveMelOk
    \/ SaveMelFail
    \/ AppendRecord
    \/ SaveMetadata
    \/ Summary
    \/ SaveConfig

FairSpec == Spec /\ WF_vars(Step)

----------------------------------------------------------------------------
(* Vocabulary of the properties *)

\* process_directory is between two files, or past the loop
FileBoundary == pc \in {"load", "save_meta", "summary", "save_config", "done"}

\* process_directory has returned in the current run
Returned ==
    /\ pc \in {"summary", "save_config", "done"}
    /\ self # NoSelf

\* the file at discovery index k of the current run failed
Failed(k) == audio_files[k + 1] \in Range(errors)

\* the index part of an output file name (the name without its extension)
Stem(f) == SubSeq(f, 1, Len(f) - 4)

Ids(md) == {md[i].id : i \in DOMAIN md}

\* the entry of the current run in runlog
ThisRun == runlog[Len(runlog)]

\* the configuration invariant of the specification
ConfigValid(c) ==
    /\ c.hop_length > 0
    /\ c.win_length <= c.n_fft
    /\ 2 * c.fmax <= c.sample_rate

ConfigFields ==
    {"sample_rate", "n_fft", "hop_length", "win_length", "n_mels", "fmin",
     "fmax", "segment_size"}

\* the files of a discovery list that are not in the error log, in order
RECURSIVE Successes(_, _)
Successes(files, errs) ==
    IF files = <<>> THEN <<>>
    ELSE IF files[1] \in Range(errs) THEN Successes(Tail(files), errs)
         ELSE <<files[1]>> \o Successes(Tail(files), errs)

OriginalFiles(md) == [i \in DOMAIN md |-> md[i].original_file]

----------------------------------------------------------------------------
(* Properties of the pipeline *)

\* C1: in a run over an empty output root, at every file boundary, a file
\* that failed at discovery index k has left neither audio/<k>.wav nor
\* mels/<k>.npy.
C1_NoPartialArtifacts ==
    (runs = 1 /\ self # NoSelf /\ FileBoundary) =>
        \A k \in 0..(Len(audio_files) - 1) :
            Failed(k) =>
                /\ AudioFilename(k) \notin audio_out
                /\ MelFilename(k) \notin mel_out

\* C2: every record of the metadata list (and of a written manifest) has both
\* of its artifacts on disk, and its audio_file and mel_file are the names of
\* these two files, the zero-padded id with .wav and .npy.
C2_RecordHasBothArtifacts ==
    \A md \in {metadata} \cup metadata_json :
        \A i \in DOMAIN md :
            /\ md[i].audio_file \in audio_out
            /\ md[i].mel_file \in mel_out
            /\ md[i].audio_file = Fmt04d(md[i].id) \o WAV
            /\ md[i].mel_file = Fmt04d(md[i].id) \o NPY

\* C2 witness: a record was appended for the second file after the first
\* file failed.
C2_Witness ==
    /\ Len(metadata) = 1
    /\ metadata[1].id = 1
    /\ Len(errors) = 1
    /\ pc = "save_meta"

\* C3: every record's id is the position of its file in the truncated
\* discovery list, its file names carry that index, ids are strictly
\* increasing in list order, and a failed position has no record.
C3_IdIsDiscoveryPosition ==
    /\ \A i \in DOMAIN metadata :
         /\ metadata[i].id \in 0..(Len(audio_files) - 1)
         /\ audio_files[metadata[i].id + 1] = metadata[i].original_file
         /\ Stem(metadata[i].audio_file) = Fmt04d(metadata[i].id)
         /\ Stem(metadata[i].mel_file) = Fmt04d(metadata[i].id)
    /\ \A i, j \in DOMAIN metadata :
         i < j => metadata[i].id < metadata[j].id
    /\ \A k \in 0..(Len(audio_files) - 1) :
         (pc # "begin" /\ Failed(k)) => k \notin Ids(metadata)
    /\ (runlog # <<>> /\ pc # "begin") =>
         audio_files = Truncate(ThisRun.listing, ThisRun.cap)
    /\ Returned => metadata_json = {metadata}

\* C3 witness: the first file failed and the second file's record has id 1
\* in the written manifest.
C3_Witness ==
    /\ pc = "done"
    /\ Len(audio_files) = 2
    /\ Failed(0)
    /\ \E md \in metadata_json : Len(md) = 1 /\ md[1].id = 1

\* C4: a started run of process_directory never crashes, attempts every file
\* of the discovery list whatever failed before, always returns, and the
\* manifest it wrote holds exactly the records of the files that did not
\* fail (none when all failed); main's summary does not raise on a count of 0.
C4_RunCompletes ==
    /\ [](pc # "crashed")
    /\ [](Returned =>
            /\ attempted = audio_files
            /\ \E md \in metadata_json :
                 /\ md = metadata
                 /\ OriginalFiles(md) = Successes(audio_files, errors)
            /\ Cardinality(metadata_json) = 1)
    /\ [](pc \in {"save_config", "done"} /\ entry = "main" /\ self # NoSelf =>
            \E sm \in summary : sm.total_files = Len(metadata))
    /\ (pc = "begin" ~> pc = "done")

\* C4 witness: main finished a run in which every file failed, with an empty
\* manifest and a summary of 0 files.
C4_Witness ==
    /\ pc = "done"
    /\ entry = "main"
    /\ Len(audio_files) = 2
    /\ Len(errors) = 2
    /\ metadata_json = {<<>>}
    /\ \E sm \in summary : sm.total_files = 0

\* C5: in a run with a fatal condition (input directory missing or config
\* violating the invariant) over an empty output root, no file is handed to
\* the decoder and no waveform, spectrogram, manifest or config file exists.
C5_FatalAbortsBeforeAnyFile ==
    (runs = 1 /\ entry # "none"
       /\ (~input_exists \/ ~ConfigValid(config))) =>
        /\ attempted = <<>>
        /\ audio_out = {}
        /\ mel_out = {}
        /\ metadata_json = {}
        /\ config_json = {}

\* C6: when process_directory returns from a call with cap N >= 0 on a
\* directory with more than N matching files, exactly the first N discovered
\* files were attempted and the manifest holds the successes among them.
C6_CapRespected ==
    (Returned /\ entry = "direct") =>
        \A n \in ThisRun.cap :
            (n >= 0 /\ Len(ThisRun.listing) > n) =>
                /\ attempted = SubSeq(ThisRun.listing, 1, n)
                /\ \A md \in metadata_json :
                     /\ Len(md) <= n
                     /\ OriginalFiles(md) =
                          Successes(SubSeq(ThisRun.listing, 1, n), errors)

\* C7: the preprocessor's attributes and the config are those of main's
\* literal for the whole run and do not change during it, and when main has
\* finished a run over an existing input directory config.json holds exactly
\* the eight fields with these values.
C7_ConfigPersistedVerbatim ==
    /\ []((entry = "main" /\ input_exists /\ pc \notin {"idle"}) =>
            /\ self = MainConfig
            /\ config = MainConfig)
    /\ []((entry = "main" /\ input_exists /\ pc = "done") =>
            /\ config_json = {MainConfig}
            /\ \A c \in config_json : DOMAIN c = ConfigFields)
    /\ [][pc \notin {"idle", "done"} => (config' = config /\ self' = self)]_vars

\* C7 witness: main finished a run in which a file failed and config.json
\* is written.
C7_Witness ==
    /\ entry = "main"
    /\ pc = "done"
    /\ errors # <<>>
    /\ config_json = {MainConfig}

\* C8: any two runs of process_directory with the same config and cap (over
\* the same directory contents) have the same discovery list, hence assign
\* every file the same index.
C8_DiscoveryDeterministic ==
    \A i, j \in DOMAIN runlog :
        (runlog[i].config = runlog[j].config /\ runlog[i].cap = runlog[j].cap)
            => runlog[i].audio_files = runlog[j].audio_files

\* C9: when process_directory has returned, the indexes with a file in
\* audio/, the indexes with a file in mels/ and the ids of the written
\* manifest are the same set.
C9_OutputsMatchManifest ==
    Returned =>
        \A md \in metadata_json :
            /\ {Stem(f) : f \in audio_out} = {Fmt04d(k) : k \in Ids(md)}
            /\ {Stem(f) : f \in mel_out} = {Fmt04d(k) : k \in Ids(md)}

----------------------------------------------------------------------------
(* The cleaner: eliminar_duplicados_similares *)

\* \s of the regular expression
IsSpace(c) == c \in {" ", "\t", "\n", "\r", "\f"}

\* . of the regular expression: any character but a newline
IsDot(c) == c # "\n"

\* \[.*\] tried at position j: the index of the last character of the match,
\* 0 when there is none; .* is greedy and gives back to the last "]"
BracketEnd(s, j) ==
    IF j > Len(s) \/ s[j] # "[" THEN 0
    ELSE LET closes == {k \in (j + 1)..Len(s) :
                          /\ s[k] = "]"
                          /\ \A m \in (j + 1)..(k - 1) : IsDot(s[m])}
         IN  IF closes = {} THEN 0
             ELSE CHOOSE k \in closes : \A m \in closes : m <= k

\* \s?\[.*\] tried at position i: \s? first takes the whitespace character,
\* and is skipped when the rest does not match after it
MatchEnd(s, i) ==
    IF i <= Len(s) /\ IsSpace(s[i]) /\ BracketEnd(s, i + 1) # 0
    THEN BracketEnd(s, i + 1)
    ELSE BracketEnd(s, i)

\* re.sub(pattern, "", s) from position i on: leftmost matches, left to right
RECURSIVE SubFrom(_, _)
SubFrom(s, i) ==
    IF i > Len(s) THEN <<>>
    ELSE IF MatchEnd(s, i) # 0 THEN SubFrom(s, MatchEnd(s, i) + 1)
         ELSE <<s[i]>> \o SubFrom(s, i + 1)

\* the pattern without its \s?
RECURSIVE SubFromNoSpace(_, _)
SubFromNoSpace(s, i) ==
    IF i > Len(s) THEN <<>>
    ELSE IF BracketEnd(s, i) # 0 THEN SubFromNoSpace(s, BracketEnd(s, i) + 1)
         ELSE <<s[i]>> \o SubFromNoSpace(s, i + 1)

NormalizeNoSpace(nombre) == SubFromNoSpace(nombre, 1)

\* nombre_normalizado = re.sub(r"\s?\[.*\]", "", nombre_archivo)
Normalize(nombre) == SubFrom(nombre, 1)

\* the folder the script is run on
Carpeta == <<"j">>

\* os.path.join(carpeta, nombre_archivo)
Join(carpeta, nombre) == carpeta \o <<"/">> \o nombre

\* nombre_normalizado in archivos_vistos
Visto(normalizado) == \E e \in archivos_vistos : e[1] = normalizado

\* file names the folder can hold
CleanerPool ==
    {<<"a">> \o MP3,
     <<"a", " ", "[", "b", "]">> \o MP3,
     <<"a", "[", "b", "]">> \o MP3,
     <<"[", "b", "]", "a">> \o MP3,
     <<"a", "[", "b", "]", "c", "[", "d", "]">> \o MP3,
     <<"a", " ", " ", "[", "b", "]">> \o MP3,
     <<"c">> \o MP3,
     <<"c", " ", "[", "d", "]">> \o MP3,
     <<"a", "]">> \o MP3,
     <<"]", "a", "[">> \o MP3,
     <<"a">> \o TXT,
     <<"a", " ", "[", "b", "]">> \o TXT,
     <<"a">> \o MP3 \o <<" ", "[", "b", "]">>}

InitCleaner ==
    /\ input_exists = TRUE
    /\ jamendo_tracks \in {d \in SUBSET CleanerPool : Cardinality(d) <= MaxDir}
    /\ InitOutput
    /\ InitRun
    /\ InitCleanerIdle

\* os.listdir(carpeta): the names, in an order the file system chooses
Listar ==
    /\ pc = "idle"
    /\ \E l \in Listings(jamendo_tracks) : listado' = l
    /\ pos' = 0
    /\ archivos_vistos' = {}
    /\ pc' = IF jamendo_tracks = {} THEN "cleaned" ELSE "clean"
    /\ UNCHANGED jamendo_tracks
    /\ UNCHANGED pipeVars

\* the loop goes to the next entry of the listing
Siguiente ==
    /\ pos' = pos + 1
    /\ pc' = IF pos + 1 < Len(listado) THEN "clean" ELSE "cleaned"

\* an entry that does not end in .mp3 is skipped
Omitir ==
    /\ pc = "clean"
    /\ ~EndsWith(listado[pos + 1], MP3)
    /\ Siguiente
    /\ UNCHANGED <<jamendo_tracks, listado, archivos_vistos>>
    /\ UNCHANGED pipeVars

\* archivos_vistos[nombre_normalizado] = ruta_completa
Registrar ==
    /\ pc = "clean"
    /\ EndsWith(listado[pos + 1], MP3)
    /\ ~Visto(Normalize(listado[pos + 1]))
    /\ archivos_vistos' =
         archivos_vistos \cup
           {<<Normalize(listado[pos + 1]), Join(Carpeta, listado[pos + 1])>>}
    /\ Siguiente
    /\ UNCHANGED <<jamendo_tracks, listado>>
    /\ UNCHANGED pipeVars

\* os.remove(ruta_completa)
Eliminar ==
    /\ pc = "clean"
    /\ EndsWith(listado[pos + 1], MP3)
    /\ Visto(Normalize(listado[pos + 1]))
    /\ jamendo_tracks' = jamendo_tracks \ {listado[pos + 1]}
    /\ Siguiente
    /\ UNCHANGED <<listado, archivos_vistos>>
    /\ UNCHANGED pipeVars

\* os.remove raises (the file cannot be removed): the script ends there
EliminarFalla ==
    /\ pc = "clean"
    /\ EndsWith(listado[pos + 1], MP3)
    /\ Visto(Normalize(listado[pos + 1]))
    /\ pc' = "clean_crashed"
    /\ UNCHANGED <<jamendo_tracks, listado, pos, archivos_vistos>>
    /\ UNCHANGED pipeVars

NextCleaner ==
    \/ Listar
    \/ Omitir
    \/ Registrar
    \/ Eliminar
    \/ EliminarFalla

CleanerSpec == InitCleaner /\ [][NextCleaner]_vars

----------------------------------------------------------------------------
(* Properties of the cleaner *)

\* the name without a bracketed tag that ends its stem: a stem ending in "]"
\* loses the text from its last "[" on, and one whitespace character before it
StripSuffixTag(nombre) ==
    LET stem == SubSeq(nombre, 1, Len(nombre) - Len(MP3))
        opens == {k \in 1..Len(stem) : stem[k] = "["}
    IN  IF stem = <<>> \/ stem[Len(stem)] # "]" \/ opens = {} THEN nombre
        ELSE LET o == CHOOSE k \in opens : \A m \in opens : m <= k
                 from == IF o > 1 /\ IsSpace(stem[o - 1]) THEN o - 1 ELSE o
             IN  SubSeq(stem, 1, from - 1) \o MP3

\* the name without the span from its first "[" (and one whitespace character
\* before it) to its last "]", when the first "[" comes before the last "]"
StripBracketSpan(nombre) ==
    LET opens == {k \in 1..Len(nombre) : nombre[k] = "["}
        closes == {k \in 1..Len(nombre) : nombre[k] = "]"}
    IN  IF opens = {} \/ closes = {} THEN nombre
        ELSE LET o == CHOOSE k \in opens : \A m \in opens : k <= m
                 c == CHOOSE k \in closes : \A m \in closes : m <= k
                 from == IF o > 1 /\ IsSpace(nombre[o - 1]) THEN o - 1 ELSE o
             IN  IF c < o THEN nombre
                 ELSE SubSeq(nombre, 1, from - 1)
                        \o SubSeq(nombre, c + 1, Len(nombre))

\* the .mp3 entries of the listing whose name under the reading norm(_)
\* equals that of an earlier .mp3 entry
Duplicates(norm(_)) ==
    {listado[i] : i \in {i \in DOMAIN listado :
        /\ EndsWith(listado[i], MP3)
        /\ \E j \in 1..(i - 1) :
             /\ EndsWith(listado[j], MP3)
             /\ norm(listado[j]) = norm(listado[i])}}

====
